---- MODULE Spec2Model ----
(***************************************************************************)
(* Weekly meal planner: menu selection (menu_manager.py), ingredient       *)
(* normalisation and aisle sort, concurrent price/image enrichment,        *)
(* grocery list composition with a persisted run counter, and the run      *)
(* (main) that strings them together and sends the email (send_email.py).  *)
(*                                                                         *)
(* Python strings whose characters matter (ingredient text, grocery lines, *)
(* the counter file, URLs, markup) are sequences of one-character strings. *)
(* Opaque table cells (Meal, Image) are TLA+ strings.                       *)
(***************************************************************************)
EXTENDS Integers, Sequences, FiniteSets, TLC

VARIABLES
    full_menu_file,         \* src/data/Full_menu.csv: rows of cells as written
    last_week_file,         \* src/data/last_week_meals.csv
    counter_file,           \* src/data/run_counter.txt: [exists, text]
    weekly_grocery_file,    \* src/data/weekly_grocery_list.txt: lines
    bi_weekly_grocery_file, \* src/data/bi_weekly_grocery_list.txt: lines
    aisle_numbers_file,     \* src/data/aisle_numbers.csv: rows
    aisle_numbers,          \* MealDataProcessor.aisle_numbers (dict)
    pc,                     \* position of the process in main()
    full_menu_df,           \* MenuManager.full_menu_df
    last_week_menu_df,      \* MenuManager.last_week_menu_df
    week_meals_df,          \* MenuManager.week_meals_df (Optional)
    meals_dict,             \* MealDataProcessor.meals_dict['Ingredients']
    separate_grocery_list,  \* MealDataProcessor.separate_grocery_list
    alternate_grocery_list, \* MealDataProcessor.alternate_grocery_list
    run_count,              \* MealDataProcessor.run_count
    ingredients,            \* MealDataProcessor.ingredients
    futures,                \* future_to_index: per index, pending or the response
    new_ingredients,        \* local of get_price_and_images (Optional slots)
    image_list,             \* local of get_price_and_images (Optional slots)
    images_sample,          \* local images after random.sample
    images,                 \* local images after ' '.join
    combined_list,          \* result of get_additional_grocery_list
    error,                  \* the exception that ended the process, or "none"
    prev_week_meals,        \* history: selection of the last run that selected
    prev_run_count,         \* history: run_count before the latest composition
    invocations,            \* history: compositions since the initial state
    counter_start,          \* history: counter value of the initial state
    emails_sent,            \* history: emails handed to the transport
    runs                    \* history: processes started

menu_vars == <<full_menu_df, last_week_menu_df, week_meals_df>>
file_vars == <<full_menu_file, weekly_grocery_file, bi_weekly_grocery_file,
               aisle_numbers_file>>
proc_vars == <<meals_dict, separate_grocery_list, alternate_grocery_list>>
enrich_vars == <<futures, new_ingredients, image_list, images_sample, images>>
hist_vars == <<prev_week_meals, prev_run_count, invocations, counter_start,
               emails_sent, runs>>
vars == <<full_menu_file, last_week_file, counter_file, weekly_grocery_file,
          bi_weekly_grocery_file, aisle_numbers_file, aisle_numbers, pc,
          full_menu_df,
          last_week_menu_df, week_meals_df, meals_dict, separate_grocery_list,
          alternate_grocery_list, run_count, ingredients, futures,
          new_ingredients, image_list, images_sample, images, combined_list,
          error, prev_week_meals, prev_run_count, invocations, counter_start,
          emails_sent, runs>>

----------------------------------------------------------------------------
(* Bounds of the model *)

MaxRuns == 2
MaxIngredients == 5
MaxInvocations == 4
MaxCounter == 3

----------------------------------------------------------------------------
(* Python values *)

\* Optional[T]: None, or a value
None == [set |-> FALSE, val |-> <<>>]
Some(v) == [set |-> TRUE, val |-> v]

Range(s) == {s[i] : i \in 1..Len(s)}

Lowers == <<"a","b","c","d","e","f","g","h","i","j","k","l","m",
            "n","o","p","q","r","s","t","u","v","w","x","y","z">>
Uppers == <<"A","B","C","D","E","F","G","H","I","J","K","L","M",
            "N","O","P","Q","R","S","T","U","V","W","X","Y","Z">>
Digits == <<"0","1","2","3","4","5","6","7","8","9">>
Whitespace == {" ", "\t", "\n", "\r"}

IndexIn(c, seq) == CHOOSE i \in 1..Len(seq) : seq[i] = c
IsLower(c) == c \in Range(Lowers)
IsUpper(c) == c \in Range(Uppers)
IsCased(c) == IsLower(c) \/ IsUpper(c)
ToUpper(c) == IF IsLower(c) THEN Uppers[IndexIn(c, Lowers)] ELSE c
ToLower(c) == IF IsUpper(c) THEN Lowers[IndexIn(c, Uppers)] ELSE c

\* str.title(): a cased character is upper-cased after an uncased one (or at
\* the start) and lower-cased after a cased one
Title(s) ==
    [i \in 1..Len(s) |->
        IF i = 1 \/ ~IsCased(s[i-1]) THEN ToUpper(s[i]) ELSE ToLower(s[i])]

\* str.strip(chars): drop leading and trailing characters of the set
RECURSIVE LStripChars(_, _)
LStripChars(s, chars) ==
    IF s # <<>> /\ Head(s) \in chars THEN LStripChars(Tail(s), chars) ELSE s

RECURSIVE RStripChars(_, _)
RStripChars(s, chars) ==
    IF s # <<>> /\ s[Len(s)] \in chars
    THEN RStripChars(SubSeq(s, 1, Len(s) - 1), chars) ELSE s

StripChars(s, chars) == RStripChars(LStripChars(s, chars), chars)

\* str.strip()
Strip(s) == StripChars(s, Whitespace)

\* str.split(sep) for a one-character separator
RECURSIVE Split(_, _)
Split(s, sep) ==
    IF \E i \in 1..Len(s) : s[i] = sep
    THEN LET i == CHOOSE k \in 1..Len(s) :
                      s[k] = sep /\ \A j \in 1..(k-1) : s[j] # sep
         IN  <<SubSeq(s, 1, i - 1)>> \o Split(SubSeq(s, i + 1, Len(s)), sep)
    ELSE <<s>>

StartsWith(s, pat) == Len(pat) <= Len(s) /\ SubSeq(s, 1, Len(pat)) = pat

\* str.replace(old, new) for a non-empty old
RECURSIVE Replace(_, _, _)
Replace(s, old, new) ==
    IF s = <<>> THEN <<>>
    ELSE IF StartsWith(s, old)
         THEN new \o Replace(SubSeq(s, Len(old) + 1, Len(s)), old, new)
         ELSE <<Head(s)>> \o Replace(Tail(s), old, new)

\* sep.join(list)
RECURSIVE Join(_, _)
Join(sep, list) ==
    IF list = <<>> THEN <<>>
    ELSE IF Len(list) = 1 THEN list[1]
         ELSE list[1] \o sep \o Join(sep, Tail(list))

\* str(n) for an int
RECURSIVE IntToStr(_)
IntToStr(n) ==
    IF n < 0 THEN <<"-">> \o IntToStr(0 - n)
    ELSE IF n < 10 THEN <<Digits[n + 1]>>
         ELSE IntToStr(n \div 10) \o <<Digits[(n % 10) + 1]>>

\* the value of a non-empty run of decimal digits
RECURSIVE DigitsToInt(_)
DigitsToInt(s) ==
    IF Len(s) = 1 THEN IndexIn(s[1], Digits) - 1
    ELSE 10 * DigitsToInt(SubSeq(s, 1, Len(s) - 1))
         + (IndexIn(s[Len(s)], Digits) - 1)

\* the text int() reads once the surrounding whitespace and the sign are off
IntBody(s) ==
    LET t == Strip(s)
    IN  IF t # <<>> /\ Head(t) \in {"+", "-"} THEN Tail(t) ELSE t

\* the texts int() accepts: an optional sign, then digits, with single
\* underscores allowed between digits
IsIntLiteral(s) ==
    LET b == IntBody(s)
    IN  /\ b # <<>>
        /\ \A i \in 1..Len(b) : b[i] \in Range(Digits) \cup {"_"}
        /\ b[1] # "_" /\ b[Len(b)] # "_"
        /\ \A i \in 1..(Len(b) - 1) : ~(b[i] = "_" /\ b[i + 1] = "_")

\* int(s): the value, or the ValueError of a text that is no numeral
StrToInt(s) ==
    IF ~IsIntLiteral(s) THEN [raised |-> TRUE, value |-> 0]
    ELSE LET t == Strip(s)
             n == DigitsToInt(SelectSeq(IntBody(s), LAMBDA c : c # "_"))
         IN  [raised |-> FALSE,
              value |-> IF Head(t) = "-" THEN 0 - n ELSE n]

\* code point order of the characters ingredient names are made of
CodePoints == <<"\t", "\n", "\r", " ", ",">> \o Uppers \o Lowers
Ord(c) == IndexIn(c, CodePoints)

\* s < t for Python strings
RECURSIVE StrLess(_, _)
StrLess(s, t) ==
    IF t = <<>> THEN FALSE
    ELSE IF s = <<>> THEN TRUE
         ELSE IF Head(s) = Head(t) THEN StrLess(Tail(s), Tail(t))
              ELSE Ord(Head(s)) < Ord(Head(t))

\* the orders in which a set may be iterated
RECURSIVE Orderings(_)
Orderings(S) ==
    IF S = {} THEN {<<>>}
    ELSE UNION {{<<x>> \o rest : rest \in Orderings(S \ {x})} : x \in S}

----------------------------------------------------------------------------
(* pandas: CSV tables of string cells *)

\* a missing cell of a DataFrame read with dtype=str
NaN == "<NaN>"

\* the cell texts pandas.read_csv reads as missing
NaValues == {"", "#N/A", "#N/A N/A", "#NA", "-1.#IND", "-1.#QNAN", "-NaN",
             "-nan", "1.#IND", "1.#QNAN", "<NA>", "N/A", "NA", "NULL", "NaN",
             "None", "n/a", "nan", "null"}

ReadCsvCell(c) == IF c \in NaValues THEN NaN ELSE c
ToCsvCell(v) == IF v = NaN THEN "" ELSE v

\* pd.read_csv(path, dtype=str). The Ingredients column is character-level
\* text; the tables of the model leave no Ingredients cell empty.
ReadCsv(file) ==
    [i \in 1..Len(file) |->
        [Meal |-> ReadCsvCell(file[i].Meal),
         Ingredients |-> file[i].Ingredients,
         Image |-> ReadCsvCell(file[i].Image)]]

\* DataFrame.to_csv(path, index=False)
ToCsv(df) ==
    [i \in 1..Len(df) |->
        [Meal |-> ToCsvCell(df[i].Meal),
         Ingredients |-> df[i].Ingredients,
         Image |-> ToCsvCell(df[i].Image)]]

\* mutant of LeftOnly: rows are matched on the Meal column alone
LeftOnlyByMeal(left, right) ==
    SelectSeq(left, LAMBDA row :
        row.Meal \notin {right[j].Meal : j \in 1..Len(right)})

\* pd.merge(left, right, indicator=True, how='outer')
\*   .query('_merge=="left_only"').drop('_merge', axis=1):
\* the rows of left equal, on every column, to no row of right. The merge
\* returns them in key order; every use of the result is a random sample.
LeftOnly(left, right) ==
    SelectSeq(left, LAMBDA row : row \notin Range(right))

\* DataFrame.sample(n): the ways to draw n rows without replacement
Samples(df, n) ==
    {[i \in 1..n |-> df[ix[i]]] :
        ix \in {f \in [1..n -> 1..Len(df)] :
                   \A i, j \in 1..n : i # j => f[i] # f[j]}}

----------------------------------------------------------------------------
(* menu_manager.py *)

NUMBER_OF_MEALS == 4

\* MenuManager.__init__
MenuManagerInit ==
    /\ pc = "start"
    /\ full_menu_df' = ReadCsv(full_menu_file)
    /\ last_week_menu_df' = ReadCsv(last_week_file)
    /\ week_meals_df' = None
    /\ pc' = "get_weeks_meals"
    /\ UNCHANGED <<file_vars, last_week_file, counter_file, aisle_numbers,
                   proc_vars, run_count, ingredients, enrich_vars,
                   combined_list, error, hist_vars>>

\* the candidate pool of get_weeks_meals
df_poss_weekly_choices == LeftOnly(full_menu_df, last_week_menu_df)

PandasSampleError == "ValueError: Cannot take a larger sample than population"

\* MenuManager.get_weeks_meals: DataFrame.sample raises ValueError when asked
\* for more rows than the pool holds, and main() does not catch it
GetWeeksMeals ==
    /\ pc = "get_weeks_meals"
    /\ IF Len(df_poss_weekly_choices) < NUMBER_OF_MEALS
       THEN /\ error' = PandasSampleError
            /\ pc' = "aborted"
            /\ UNCHANGED week_meals_df
       ELSE /\ \E sel \in Samples(df_poss_weekly_choices, NUMBER_OF_MEALS) :
                   week_meals_df' = Some(sel)
            /\ pc' = "update_last_week"
            /\ UNCHANGED error
    /\ UNCHANGED <<file_vars, last_week_file, counter_file, aisle_numbers,
                   full_menu_df, last_week_menu_df, proc_vars, run_count,
                   ingredients, enrich_vars, combined_list, hist_vars>>

\* mutant of LastWeekWritten: the selection is appended to the rows read
LastWeekAppended == ToCsv(last_week_menu_df \o week_meals_df.val)

\* the file update_last_week leaves
LastWeekWritten == ToCsv(week_meals_df.val)

\* MenuManager.update_last_week
UpdateLastWeek ==
    /\ pc = "update_last_week"
    /\ last_week_file' =
           IF week_meals_df.set THEN LastWeekWritten ELSE last_week_file
    /\ pc' = "processor_init"
    /\ UNCHANGED <<file_vars, counter_file, aisle_numbers, menu_vars,
                   proc_vars, run_count, ingredients, enrich_vars,
                   combined_list, error, hist_vars>>

----------------------------------------------------------------------------
(* send_email.py: MealDataProcessor *)

\* load_separate_grocery_list, load_alternate_grocery_list
LoadGroceryList(file) == [i \in 1..Len(file) |-> Strip(file[i])]

\* load_aisle_numbers: set_index('Ingredient')['Aisle'].to_dict() keeps, for
\* an ingredient listed twice, the Aisle of its last row
LoadAisleNumbers(file) ==
    [name \in {file[i].Ingredient : i \in 1..Len(file)} |->
        LET last == CHOOSE i \in 1..Len(file) :
                        /\ file[i].Ingredient = name
                        /\ \A j \in (i+1)..Len(file) : file[j].Ingredient # name
        IN  file[last].Aisle]

\* load_run_count: the count, or the ValueError int() raises on the file's text
LoadRunCount(file) ==
    IF file.exists THEN StrToInt(Strip(file.text))
    ELSE [raised |-> FALSE, value |-> 0]

\* save_run_count
SaveRunCount(count) == [exists |-> TRUE, text |-> IntToStr(count)]

IntError == "ValueError: invalid literal for int() with base 10"

\* MealDataProcessor.__init__ on menu_manager.week_meals_df, entered at one
\* of the positions from: load_run_count is its last statement, and nothing
\* catches the ValueError it may raise
MealDataProcessorInitAt(from, to) ==
    /\ pc \in from
    /\ ingredients' = <<>>
    /\ aisle_numbers' = LoadAisleNumbers(aisle_numbers_file)
    /\ separate_grocery_list' = LoadGroceryList(weekly_grocery_file)
    /\ alternate_grocery_list' = LoadGroceryList(bi_weekly_grocery_file)
    /\ meals_dict' = [i \in 1..Len(week_meals_df.val) |->
                         week_meals_df.val[i].Ingredients]
    /\ IF LoadRunCount(counter_file).raised
       THEN /\ error' = IntError
            /\ pc' = "aborted"
            /\ UNCHANGED run_count
       ELSE /\ run_count' = LoadRunCount(counter_file).value
            /\ pc' = to
            /\ UNCHANGED error
    /\ UNCHANGED <<file_vars, last_week_file, counter_file, menu_vars,
                   enrich_vars, combined_list, hist_vars>>

\* main(): meal_data_processor = MealDataProcessor(...)
MealDataProcessorInit ==
    MealDataProcessorInitAt({"processor_init"}, "get_ingredients")

\* the flattened, stripped and title-cased items of get_ingredients, as a set
RECURSIVE Flatten(_)
Flatten(lists) ==
    IF lists = <<>> THEN <<>> ELSE Head(lists) \o Flatten(Tail(lists))

IngredientSet(texts) ==
    LET lists == [i \in 1..Len(texts) |-> Split(texts[i], ",")]
    IN  {Title(Strip(item)) : item \in Range(Flatten(lists))}

\* float('inf')
Inf == [inf |-> TRUE, n |-> 0]

\* mutant of AisleKey: an ingredient without an aisle gets aisle 0
AisleKeyDefaultZero(x) ==
    IF Title(x) \in DOMAIN aisle_numbers
    THEN [inf |-> FALSE, n |-> aisle_numbers[Title(x)]]
    ELSE [inf |-> FALSE, n |-> 0]

\* the sort key: lambda x: self.aisle_numbers.get(x.title(), float('inf'))
AisleKey(x) ==
    IF Title(x) \in DOMAIN aisle_numbers
    THEN [inf |-> FALSE, n |-> aisle_numbers[Title(x)]]
    ELSE Inf

\* a < b for an int or float('inf')
KeyLess(a, b) == ~a.inf /\ (b.inf \/ a.n < b.n)

\* sorted(iterable, key=...): a stable sort, which leaves items of equal key
\* in the order the iterable yields them
RECURSIVE InsertSorted(_, _)
InsertSorted(x, sorted) ==
    IF sorted = <<>> THEN <<x>>
    ELSE IF KeyLess(AisleKey(x), AisleKey(Head(sorted)))
         THEN <<x>> \o sorted
         ELSE <<Head(sorted)>> \o InsertSorted(x, Tail(sorted))

RECURSIVE Sorted(_)
Sorted(items) ==
    IF items = <<>> THEN <<>>
    ELSE InsertSorted(items[Len(items)], Sorted(SubSeq(items, 1, Len(items) - 1)))

\* get_ingredients: the set is iterated in an order Python does not fix
GetIngredients ==
    /\ pc = "get_ingredients"
    /\ \E order \in Orderings(IngredientSet(meals_dict)) :
           ingredients' = Sorted(order)
    /\ pc' = "get_price_and_images"
    /\ UNCHANGED <<file_vars, last_week_file, counter_file, aisle_numbers,
                   menu_vars, proc_vars, run_count, enrich_vars,
                   combined_list, error, hist_vars>>

----------------------------------------------------------------------------
(* the catalog API and fetch_price_and_image *)

\* what requests.get(url) meets: no connection (requests.get raises), a body
\* that is not JSON (response.json() raises a ValueError), or JSON whose
\* price path or image path ends in a missing key or an empty array
NetworkError == [connected |-> FALSE, json |-> FALSE,
                 prices |-> <<>>, images |-> <<>>]
MalformedJson == [connected |-> TRUE, json |-> FALSE,
                  prices |-> <<>>, images |-> <<>>]
NoOffers == [connected |-> TRUE, json |-> TRUE,
             prices |-> <<>>, images |-> <<>>]
NoImages == [connected |-> TRUE, json |-> TRUE,
             prices |-> << <<"$", "1">> >>, images |-> <<>>]
Offer == [connected |-> TRUE, json |-> TRUE,
          prices |-> << <<"$", "1">> >>,
          images |-> << <<"h", "/", "{", "w", "i", "d", "t", "h", "}", "/",
                          "{", "s", "l", "u", "g", "}">> >>]
Responses == {NetworkError, MalformedJson, NoOffers, NoImages, Offer}

NotAvailable == <<"N", "o", "t", " ", "a", "v", "a", "i", "l", "a", "b", "l", "e">>

\* image_url.strip("{slug}").replace("{width}", "116")
ImageUrl(url) ==
    Replace(StripChars(url, {"{", "s", "l", "u", "g", "}"}),
            <<"{", "w", "i", "d", "t", "h", "}">>, <<"1", "1", "6">>)

\* f"<img src={image_url} alt={item} height='116'>"
ImageTag(image_url, item) ==
    <<"<", "i", "m", "g", " ", "s", "r", "c", "=">> \o image_url
    \o <<" ", "a", "l", "t", "=">> \o item
    \o <<" ", "h", "e", "i", "g", "h", "t", "=", "'", "1", "1", "6", "'", ">">>

\* the exceptions fetch_price_and_image lets escape: only IndexError and
\* KeyError are caught, and requests.get is outside the try
FetchRaises(response) == ~response.connected \/ ~response.json

\* the price the try block leaves: assigned before the image path is read
FetchPrice(response) ==
    IF response.prices # <<>> THEN response.prices[1] ELSE NotAvailable

\* the image the try block leaves
FetchImage(item, response) ==
    IF response.prices # <<>> /\ response.images # <<>>
    THEN ImageTag(ImageUrl(response.images[1]), item)
    ELSE <<>>

\* fetch_price_and_image: the future's exception, or (f'{item}: {price}', image)
FetchPriceAndImage(item, response) ==
    [raised |-> FetchRaises(response),
     content |-> item \o <<":", " ">> \o FetchPrice(response),
     image |-> FetchImage(item, response)]

----------------------------------------------------------------------------
(* get_price_and_images *)

Pending == [done |-> FALSE, response |-> NetworkError]
Completed(response) == [done |-> TRUE, response |-> response]
NumDone == Cardinality({i \in DOMAIN futures : futures[i].done})

\* the pool submits every ingredient; the slots start as None. The lists of
\* the model are shorter than max_workers=30, so every lookup is in flight
GetPriceAndImages ==
    /\ pc = "get_price_and_images"
    /\ new_ingredients' = [i \in 1..Len(ingredients) |-> None]
    /\ image_list' = [i \in 1..Len(ingredients) |-> None]
    /\ futures' = [i \in 1..Len(ingredients) |-> Pending]
    /\ pc' = "as_completed"
    /\ UNCHANGED <<file_vars, last_week_file, counter_file, aisle_numbers,
                   menu_vars, proc_vars, run_count, ingredients,
                   images_sample, images, combined_list, error, hist_vars>>

\* mutant of ResultSlot: results are stored in the order of completion
ResultSlotByCompletion(idx, n_done) == n_done + 1

\* idx = future_to_index[future]: the slot a future's result is written to
\* (n_done: the futures handled before it)
ResultSlot(idx, n_done) == idx

\* one iteration of the as_completed loop: any pending future may be the
\* next to complete; an exception of the future is printed and its slots
\* are left as they are
HandleFuture ==
    /\ pc = "as_completed"
    /\ \E idx \in DOMAIN futures, response \in Responses :
        /\ ~futures[idx].done
        /\ futures' = [futures EXCEPT ![idx] = Completed(response)]
        /\ LET result == FetchPriceAndImage(ingredients[idx], response)
               slot == ResultSlot(idx, NumDone)
           IN  IF result.raised
               THEN UNCHANGED <<new_ingredients, image_list>>
               ELSE /\ new_ingredients' =
                          [new_ingredients EXCEPT ![slot] = Some(result.content)]
                    /\ image_list' =
                          [image_list EXCEPT ![slot] = Some(result.image)]
    /\ UNCHANGED <<file_vars, last_week_file, counter_file, aisle_numbers, pc,
                   menu_vars, proc_vars, run_count, ingredients,
                   images_sample, images, combined_list, error, hist_vars>>

MaxImages == 4

Min(a, b) == IF a < b THEN a ELSE b

\* [img for img in image_list if img is not None]
ImagePopulation ==
    LET kept == SelectSeq(image_list, LAMBDA slot : slot.set)
    IN  [i \in 1..Len(kept) |-> kept[i].val]

\* min(len(image_list), 4)
ImageSampleSize == Min(Len(image_list), MaxImages)

\* random.sample(population, k): the ways to draw k positions without
\* replacement, in the order drawn
RandomSamples(population, k) ==
    {[i \in 1..k |-> population[ix[i]]] :
        ix \in {f \in [1..k -> 1..Len(population)] :
                   \A i, j \in 1..k : i # j => f[i] # f[j]}}

RandomSampleError == "ValueError: Sample larger than population or is negative"

\* the end of get_price_and_images, once every future is handled:
\* random.sample raises ValueError when the sample is larger than the
\* population, and neither get_price_and_images nor main() catches it
SampleImages ==
    /\ pc = "as_completed"
    /\ \A i \in DOMAIN futures : futures[i].done
    /\ IF ImageSampleSize > Len(ImagePopulation)
       THEN /\ error' = RandomSampleError
            /\ pc' = "aborted"
            /\ UNCHANGED <<images_sample, images>>
       ELSE /\ \E sample \in RandomSamples(ImagePopulation, ImageSampleSize) :
                   /\ images_sample' = sample
                   /\ images' = Join(<<" ">>, sample)
            /\ pc' = "get_additional_grocery_list"
            /\ UNCHANGED error
    /\ UNCHANGED <<file_vars, last_week_file, counter_file, aisle_numbers,
                   menu_vars, proc_vars, run_count, ingredients, futures,
                   new_ingredients, image_list, combined_list, hist_vars>>

----------------------------------------------------------------------------
(* get_additional_grocery_list *)

\* mutant of CombinedList: the bi-weekly list goes with the even counts
CombinedListEvenRuns(count) ==
    separate_grocery_list
    \o (IF count % 2 = 0 THEN alternate_grocery_list ELSE <<>>)

\* combined_list: the weekly list, and the bi-weekly one when run_count is odd
CombinedList(count) ==
    separate_grocery_list
    \o (IF count % 2 = 1 THEN alternate_grocery_list ELSE <<>>)

\* increment_run_count: self.run_count += 1
IncrementedRunCount(count) == count + 1

\* get_additional_grocery_list, called at one of the positions from
GetAdditionalGroceryListAt(from, to) ==
    /\ pc \in from
    /\ combined_list' = CombinedList(run_count)
    /\ run_count' = IncrementedRunCount(run_count)
    /\ counter_file' = SaveRunCount(run_count')
    /\ prev_run_count' = run_count
    /\ invocations' = invocations + 1
    /\ pc' = to
    /\ UNCHANGED <<file_vars, last_week_file, aisle_numbers, menu_vars,
                   proc_vars, ingredients, enrich_vars, error,
                   prev_week_meals, counter_start, emails_sent, runs>>

\* main(): additional_grocery_list = ...get_additional_grocery_list()
GetAdditionalGroceryList ==
    GetAdditionalGroceryListAt({"get_additional_grocery_list"}, "send_email")

----------------------------------------------------------------------------
(* the end of main(), and the next run *)

\* EmailManager.send_email succeeds: the message is handed to the transport
SendEmail ==
    /\ pc = "send_email"
    /\ IF week_meals_df.set /\ week_meals_df.val # <<>>
       THEN emails_sent' = emails_sent + 1
       ELSE UNCHANGED emails_sent
    /\ pc' = "done"
    /\ UNCHANGED <<file_vars, last_week_file, counter_file, aisle_numbers,
                   menu_vars, proc_vars, run_count, ingredients, enrich_vars,
                   combined_list, error, prev_week_meals, prev_run_count,
                   invocations, counter_start, runs>>

\* EmailManager.send_email raises (connection, login or submission fails);
\* main() does not catch it
SendEmailFails ==
    /\ pc = "send_email"
    /\ week_meals_df.set /\ week_meals_df.val # <<>>
    /\ error' = "SMTPException"
    /\ pc' = "aborted"
    /\ UNCHANGED <<file_vars, last_week_file, counter_file, aisle_numbers,
                   menu_vars, proc_vars, run_count, ingredients, enrich_vars,
                   combined_list, hist_vars>>

\* the memory of a process that has not yet run main()
FreshMenu ==
    /\ full_menu_df = <<>>
    /\ last_week_menu_df = <<>>
    /\ week_meals_df = None

FreshProcessor ==
    /\ aisle_numbers = <<>>
    /\ meals_dict = <<>>
    /\ separate_grocery_list = <<>>
    /\ alternate_grocery_list = <<>>
    /\ run_count = 0
    /\ ingredients = <<>>

FreshEnrichment ==
    /\ futures = <<>>
    /\ new_ingredients = <<>>
    /\ image_list = <<>>
    /\ images_sample = <<>>
    /\ images = <<>>
    /\ combined_list = <<>>
    /\ error = "none"

FreshProcess == FreshMenu /\ FreshProcessor /\ FreshEnrichment

\* the program is run again: a new process, the files as the last one left them
NewRunFrom(ended) ==
    /\ pc \in ended
    /\ runs < MaxRuns
    /\ runs' = runs + 1
    /\ prev_week_meals' = week_meals_df
    /\ aisle_numbers' = <<>>
    /\ full_menu_df' = <<>>
    /\ last_week_menu_df' = <<>>
    /\ week_meals_df' = None
    /\ meals_dict' = <<>>
    /\ separate_grocery_list' = <<>>
    /\ alternate_grocery_list' = <<>>
    /\ run_count' = 0
    /\ ingredients' = <<>>
    /\ futures' = <<>>
    /\ new_ingredients' = <<>>
    /\ image_list' = <<>>
    /\ images_sample' = <<>>
    /\ images' = <<>>
    /\ combined_list' = <<>>
    /\ error' = "none"
    /\ pc' = "start"
    /\ UNCHANGED <<file_vars, last_week_file, counter_file, prev_run_count,
                   invocations, counter_start, emails_sent>>

NewRun == NewRunFrom({"done", "aborted"})

\* a caller other than main(): it builds a MealDataProcessor on the files
\* (again, whenever it likes) and calls get_additional_grocery_list on it
ConstructProcessor ==
    MealDataProcessorInitAt({"caller", "constructed", "composed"}, "constructed")

CallGetAdditionalGroceryList ==
    /\ invocations < MaxInvocations
    /\ GetAdditionalGroceryListAt({"constructed", "composed"}, "composed")

----------------------------------------------------------------------------
(* the data of the model *)

\* Full_menu.csv
FullMenu ==
    <<[Meal |-> "Omelette", Ingredients |-> <<"e", "g", "g">>,
      Image |-> "omelette.jpg"],
     [Meal |-> "Ham Roll", Ingredients |-> <<" ", "h", "a", "m", ",", "e", "g", "g">>,
      Image |-> "ham_roll.jpg"],
     [Meal |-> "Gammon", Ingredients |-> <<"H", "a", "m">>,
      Image |-> "gammon.jpg"],
     [Meal |-> "Quiche", Ingredients |-> <<"E", "G", "G", " ", ",", " ", "h", "a", "m">>,
      Image |-> "NA"],
     [Meal |-> "Porridge", Ingredients |-> <<"o", "a", "t">>,
      Image |-> "porridge.jpg"],
     [Meal |-> "Congee", Ingredients |-> <<"o", "a", "t", ",", " ", "r", "i", "c", "e">>,
      Image |-> "congee.jpg"],
     [Meal |-> "Pilaf", Ingredients |-> <<"r", "i", "c", "e">>,
      Image |-> "pilaf.jpg"],
     [Meal |-> "Flapjack", Ingredients |-> <<"O", "a", "t">>,
      Image |-> ""]>>

\* a last-week row that drifted from its catalog row in one field
DriftedRow == [Meal |-> "Omelette", Ingredients |-> <<"e", "g", "g">>,
               Image |-> "omelette_v2.jpg"]

\* aisle_numbers.csv: Egg and Ham share an aisle; Egg is listed twice; the
\* lower-case row matches no title-cased ingredient
AisleFile ==
    <<[Ingredient |-> <<"E", "g", "g">>, Aisle |-> 7],
      [Ingredient |-> <<"H", "a", "m">>, Aisle |-> 1],
      [Ingredient |-> <<"O", "a", "t">>, Aisle |-> 2],
      [Ingredient |-> <<"k", "a", "l", "e">>, Aisle |-> 0],
      [Ingredient |-> <<"E", "g", "g">>, Aisle |-> 1]>>

AisleFiles ==
    {AisleFile, <<>>,
     <<[Ingredient |-> <<"K", "a", "l", "e">>, Aisle |-> 3],
       [Ingredient |-> <<"C", "o", "r", "n">>, Aisle |-> 3],
       [Ingredient |-> <<"B", "r", "o", "w", "n", " ", "R", "i", "c", "e">>, Aisle |-> 1]>>}

\* weekly_grocery_list.txt and bi_weekly_grocery_list.txt, line by line
WeeklyGroceryFile == <<<<"m", "i", "l", "k", "\n">>, <<" ", "t", "e", "a", " ", "\n">>>>
BiWeeklyGroceryFile == <<<<"s", "o", "a", "p", "\n">>>>
GroceryFiles == {<<>>, WeeklyGroceryFile, BiWeeklyGroceryFile,
                 <<<<"s", "a", "l", "t">>>>}

\* Ingredients cells for the aisle sort
IngredientTexts ==
    <<<<"e", "g", "g", ",", " ", "h", "a", "m">>,
      <<"H", "a", "m", ",", "o", "a", "t", " ">>,
      <<"b", "r", "o", "w", "n", " ", "r", "i", "c", "e">>,
      <<"k", "a", "l", "e", ",", "E", "G", "G">>,
      <<"o", "a", "t", ",", "c", "o", "r", "n", ",", " ", "k", "a", "l", "e">>>>

\* ingredient names for the enrichment
IngredientNames ==
    <<<<"E", "g", "g">>,
      <<"H", "a", "m">>,
      <<"O", "a", "t">>,
      <<"B", "r", "o", "w", "n", " ", "R", "i", "c", "e">>,
      <<"K", "a", "l", "e">>,
      <<"C", "o", "r", "n">>,
      <<"R", "i", "c", "e">>>>

NoCounterFile == [exists |-> FALSE, text |-> <<>>]

\* a counter file left empty but for a line break
BlankCounterFile == [exists |-> TRUE, text |-> <<"\n">>]

\* the counter files a run may find: none, or one an earlier run saved
CounterFiles ==
    {NoCounterFile, BlankCounterFile, [exists |-> TRUE, text |-> <<"+", "1", "\n">>]}
    \cup {SaveRunCount(c) : c \in 0..MaxCounter}

----------------------------------------------------------------------------
(* specifications *)

History ==
    /\ prev_week_meals = None
    /\ prev_run_count = 0
    /\ invocations = 0
    /\ counter_start = LoadRunCount(counter_file).value
    /\ emails_sent = 0
    /\ runs = 1

\* Spec: runs of main(), one after the other, over the same catalog
Init ==
    /\ full_menu_file = FullMenu
    /\ last_week_file \in {SubSeq(FullMenu, 1, 4), SubSeq(FullMenu, 1, 6)}
    /\ counter_file \in {NoCounterFile, BlankCounterFile}
    /\ weekly_grocery_file = WeeklyGroceryFile
    /\ bi_weekly_grocery_file = BiWeeklyGroceryFile
    /\ aisle_numbers_file = AisleFile
    /\ FreshProcess
    /\ pc = "start"
    /\ History

Next ==
    \/ MenuManagerInit
    \/ GetWeeksMeals
    \/ UpdateLastWeek
    \/ MealDataProcessorInit
    \/ GetIngredients
    \/ GetPriceAndImages
    \/ HandleFuture
    \/ SampleImages
    \/ GetAdditionalGroceryList
    \/ SendEmail
    \/ SendEmailFails
    \/ NewRun

Spec == Init /\ [][Next]_vars

\* SpecMenu: main() up to the return of update_last_week, over catalogs and
\* last-week files of several shapes
InitMenu ==
    /\ full_menu_file \in {SubSeq(FullMenu, 1, n) : n \in 5..Len(FullMenu)}
    /\ last_week_file \in
           {<<>>, SubSeq(FullMenu, 1, 2), SubSeq(FullMenu, 1, 4),
            <<DriftedRow, FullMenu[2]>>,
            <<[FullMenu[4] EXCEPT !.Image = ""], FullMenu[3]>>}
    /\ counter_file = NoCounterFile
    /\ weekly_grocery_file = WeeklyGroceryFile
    /\ bi_weekly_grocery_file = BiWeeklyGroceryFile
    /\ aisle_numbers_file = AisleFile
    /\ FreshProcess
    /\ pc = "start"
    /\ History

NextMenu ==
    \/ MenuManagerInit
    \/ GetWeeksMeals
    \/ UpdateLastWeek

SpecMenu == InitMenu /\ [][NextMenu]_vars

\* the files of a run whose menu part is not under study
GivenFiles ==
    /\ full_menu_file = FullMenu
    /\ last_week_file = SubSeq(FullMenu, 1, 4)
    /\ weekly_grocery_file = WeeklyGroceryFile
    /\ bi_weekly_grocery_file = BiWeeklyGroceryFile

\* SpecSort: get_ingredients on the Ingredients cells of four meals, under
\* several aisle tables
InitSort ==
    /\ GivenFiles
    /\ counter_file = NoCounterFile
    /\ aisle_numbers_file \in AisleFiles
    /\ aisle_numbers = LoadAisleNumbers(aisle_numbers_file)
    /\ \E ix \in [1..NUMBER_OF_MEALS -> 1..Len(IngredientTexts)] :
           /\ \A i \in 1..(NUMBER_OF_MEALS - 1) : ix[i] <= ix[i + 1]
           /\ meals_dict = [i \in 1..NUMBER_OF_MEALS |-> IngredientTexts[ix[i]]]
    /\ separate_grocery_list = <<>>
    /\ alternate_grocery_list = <<>>
    /\ run_count = 0
    /\ ingredients = <<>>
    /\ FreshMenu
    /\ FreshEnrichment
    /\ pc = "get_ingredients"
    /\ History

NextSort == GetIngredients

SpecSort == InitSort /\ [][NextSort]_vars

\* SpecEnrich: get_price_and_images on ingredient lists of every length up
\* to MaxIngredients
InitEnrich ==
    /\ GivenFiles
    /\ counter_file = NoCounterFile
    /\ aisle_numbers_file = AisleFile
    /\ aisle_numbers = LoadAisleNumbers(aisle_numbers_file)
    /\ meals_dict = <<>>
    /\ separate_grocery_list = <<>>
    /\ alternate_grocery_list = <<>>
    /\ run_count = 0
    /\ ingredients \in
           {SubSeq(IngredientNames, 1, n) :
               n \in 0..Min(MaxIngredients, Len(IngredientNames))}
    /\ FreshMenu
    /\ FreshEnrichment
    /\ pc = "get_price_and_images"
    /\ History

NextEnrich ==
    \/ GetPriceAndImages
    \/ HandleFuture
    \/ SampleImages

SpecEnrich == InitEnrich /\ [][NextEnrich]_vars

\* SpecCompose: MealDataProcessor built on grocery files and counter files
\* of several shapes, for the menu of a week, and asked for the grocery list
InitCompose ==
    /\ full_menu_file = FullMenu
    /\ last_week_file = ToCsv(ReadCsv(SubSeq(FullMenu, 5, 8)))
    /\ weekly_grocery_file \in GroceryFiles
    /\ bi_weekly_grocery_file \in GroceryFiles
    /\ counter_file \in CounterFiles
    /\ aisle_numbers_file = AisleFile
    /\ full_menu_df = ReadCsv(full_menu_file)
    /\ last_week_menu_df = ReadCsv(SubSeq(FullMenu, 1, 4))
    /\ week_meals_df = Some(ReadCsv(SubSeq(FullMenu, 5, 8)))
    /\ FreshProcessor
    /\ FreshEnrichment
    /\ pc = "caller"
    /\ History

NextCompose ==
    \/ ConstructProcessor
    \/ CallGetAdditionalGroceryList

SpecCompose == InitCompose /\ [][NextCompose]_vars

----------------------------------------------------------------------------
(* properties of the enrichment (SpecEnrich) *)

\* the result of the lookup for the ingredient at position i
LookupResult(i) == FetchPriceAndImage(ingredients[i], futures[i].response)

Returned == pc = "get_additional_grocery_list"
Enriching == pc = "as_completed" \/ Returned

\* C1: whatever the order in which the lookups complete, the result lists
\* have one slot per ingredient, and slot i holds the result of the lookup
\* for ingredient i once that lookup has returned one (and nothing before,
\* or when the lookup raised)
C1_PositionFidelity ==
    Enriching =>
        /\ Len(new_ingredients) = Len(ingredients)
        /\ Len(image_list) = Len(ingredients)
        /\ \A i \in 1..Len(ingredients) :
               IF futures[i].done /\ ~LookupResult(i).raised
               THEN /\ new_ingredients[i] = Some(LookupResult(i).content)
                    /\ image_list[i] = Some(LookupResult(i).image)
               ELSE /\ new_ingredients[i] = None
                    /\ image_list[i] = None

\* a later ingredient's lookup has completed before the first one's, and the
\* engine goes on to return all the results
C1_Witness_OutOfOrder ==
    /\ pc = "as_completed"
    /\ Len(ingredients) >= 3
    /\ ~futures[1].done
    /\ futures[3].done /\ new_ingredients[3].set
    /\ futures[2].done /\ new_ingredients[2].set

\* the lookups the failure-isolation contract calls failed
LookupFailed(response) ==
    ~response.connected \/ ~response.json \/ response.prices = <<>>

\* C2: the slot of an ingredient whose lookup failed holds the
\* "Not available" placeholder and an empty image
C2_FailedLookupGetsPlaceholder ==
    Enriching =>
        \A i \in 1..Len(ingredients) :
            (futures[i].done /\ LookupFailed(futures[i].response)) =>
                /\ new_ingredients[i] =
                       Some(ingredients[i] \o <<":", " ">> \o NotAvailable)
                /\ image_list[i] = Some(<<>>)

\* C3: the engine returns whatever lookups fail; no error leaves it
C3_EngineNeverRaises == error = "none"

\* the non-empty image snippets collected
NonEmptyImages ==
    {i \in 1..Len(image_list) : image_list[i].set /\ image_list[i].val # <<>>}

\* C4: the combined markup is made of exactly min(4, k) distinct non-empty
\* snippets of the collected ones, k being the number of non-empty snippets
C4_SampleOfNonEmptyImages ==
    Returned =>
        /\ Len(images_sample) = Min(MaxImages, Cardinality(NonEmptyImages))
        /\ \A j \in 1..Len(images_sample) :
               /\ images_sample[j] # <<>>
               /\ \E i \in NonEmptyImages : image_list[i].val = images_sample[j]
        /\ \A j, k \in 1..Len(images_sample) :
               j # k => images_sample[j] # images_sample[k]
        /\ images = Join(<<" ">>, images_sample)

----------------------------------------------------------------------------
(* properties of the menu selection (C5: SpecMenu, C6: Spec) *)

\* the catalog records equal to no exclusion record
CandidatePool ==
    {i \in 1..Len(full_menu_df) :
        \A j \in 1..Len(last_week_menu_df) :
            full_menu_df[i] # last_week_menu_df[j]}

\* get_weeks_meals has been called in this process
AfterSelection == pc \notin {"start", "get_weeks_meals"}

\* C5: get_weeks_meals yields a selection of exactly NUMBER_OF_MEALS records
\* when the candidate pool holds that many, and fails without a selection
\* when it holds fewer
C5_SelectionSizeOrError ==
    AfterSelection =>
        IF Cardinality(CandidatePool) >= NUMBER_OF_MEALS
        THEN /\ week_meals_df.set
             /\ Len(week_meals_df.val) = NUMBER_OF_MEALS
             /\ error # PandasSampleError
        ELSE /\ ~week_meals_df.set
             /\ error = PandasSampleError
             /\ pc = "aborted"

\* a selection is made from a pool larger than the count
C5_Witness_Selected ==
    /\ pc = "update_last_week"
    /\ Cardinality(CandidatePool) > NUMBER_OF_MEALS
    /\ Len(last_week_menu_df) > 0
    /\ Len(week_meals_df.val) = NUMBER_OF_MEALS

\* C6: the file a run leaves is exactly its selection, and a selection is
\* drawn without replacement from the catalog records that are not in the
\* selection of the run before
C6_NoRepeatOfLastWeek ==
    (AfterSelection /\ week_meals_df.set) =>
        /\ pc # "update_last_week" =>
               ReadCsv(last_week_file) = week_meals_df.val
        /\ Range(week_meals_df.val) \subseteq Range(ReadCsv(full_menu_file))
        /\ Cardinality(Range(week_meals_df.val)) = NUMBER_OF_MEALS
        /\ prev_week_meals.set =>
               Range(week_meals_df.val) \cap Range(prev_week_meals.val) = {}

\* a run has persisted its selection after a run that made one
C6_Witness_SecondSelection ==
    /\ pc = "done"
    /\ runs = 2
    /\ emails_sent = 2
    /\ prev_week_meals.set
    /\ week_meals_df.set
    /\ \E i \in 1..Len(week_meals_df.val) : week_meals_df.val[i].Image = NaN

----------------------------------------------------------------------------
(* properties of the aisle sort (SpecSort) *)

IsMatched(x) == x \in DOMAIN aisle_numbers

AfterSort == pc = "get_price_and_images"

\* C8: the sorted ingredients are a permutation of the ingredient set, the
\* aisle numbers never decrease along them, and every ingredient without an
\* aisle comes after every ingredient with one
C8_SortedByAisle ==
    AfterSort =>
        /\ Range(ingredients) = IngredientSet(meals_dict)
        /\ Len(ingredients) = Cardinality(IngredientSet(meals_dict))
        /\ \A i, j \in 1..Len(ingredients) :
               (i < j /\ IsMatched(ingredients[j])) =>
                   /\ IsMatched(ingredients[i])
                   /\ aisle_numbers[ingredients[i]] <= aisle_numbers[ingredients[j]]

\* a sort of matched ingredients of different aisles and unmatched ones
C8_Witness_MatchedAndUnmatched ==
    /\ AfterSort
    /\ \E i, j, k \in 1..Len(ingredients) :
           /\ IsMatched(ingredients[i]) /\ IsMatched(ingredients[j])
           /\ aisle_numbers[ingredients[i]] < aisle_numbers[ingredients[j]]
           /\ ~IsMatched(ingredients[k])

\* two ingredients share an aisle number, or are both without one
SameAisle(x, y) ==
    IF IsMatched(x)
    THEN IsMatched(y) /\ aisle_numbers[x] = aisle_numbers[y]
    ELSE ~IsMatched(y)

\* C9: ingredients sharing an aisle number (the unmatched ones included) are
\* in alphabetical order, so that the same set always sorts the same way
C9_TiesAlphabetical ==
    AfterSort =>
        \A i, j \in 1..Len(ingredients) :
            (i < j /\ SameAisle(ingredients[i], ingredients[j])) =>
                StrLess(ingredients[i], ingredients[j])

----------------------------------------------------------------------------
(* properties of the grocery list composition (SpecCompose) *)

Composed == pc = "composed"

\* C7: with run counter c, get_additional_grocery_list returns the weekly
\* list followed by the bi-weekly one when c is odd and the weekly list
\* alone when c is even, and leaves c + 1 in memory and in the counter file;
\* from an absent counter file the bi-weekly list is in every second
\* invocation, beginning with the second
C7_AlternateEverySecondRun ==
    Composed =>
        /\ combined_list =
               IF prev_run_count % 2 = 1
               THEN LoadGroceryList(weekly_grocery_file)
                    \o LoadGroceryList(bi_weekly_grocery_file)
               ELSE LoadGroceryList(weekly_grocery_file)
        /\ run_count = prev_run_count + 1
        /\ counter_file.exists
        /\ ~StrToInt(Strip(counter_file.text)).raised
        /\ StrToInt(Strip(counter_file.text)).value = prev_run_count + 1
        /\ counter_start = 0 =>
               /\ prev_run_count = invocations - 1
               /\ combined_list =
                      IF invocations % 2 = 0
                      THEN LoadGroceryList(weekly_grocery_file)
                           \o LoadGroceryList(bi_weekly_grocery_file)
                      ELSE LoadGroceryList(weekly_grocery_file)

\* the second invocation from an absent counter file includes a non-empty
\* bi-weekly list
C7_Witness_SecondInvocation ==
    /\ Composed
    /\ counter_start = 0
    /\ invocations = 2
    /\ alternate_grocery_list # <<>>
    /\ separate_grocery_list # <<>>
    /\ Len(combined_list) > Len(separate_grocery_list)

----------------------------------------------------------------------------
(* properties of the run (Spec) *)

\* C10: the persisted run counter is its initial value plus the number of
\* runs that sent their email; a run that fails does not advance it
C10_CounterCountsSentEmails ==
    pc \in {"done", "aborted"} =>
        LoadRunCount(counter_file).value = counter_start + emails_sent

====
